---- MODULE Spec2Model ----
(***************************************************************************)
(* IoT sensor monitoring and threshold-alerting engine                     *)
(* (src/backend/climate_iot/iot_sensors.py, class IoTSensorManager).       *)
(*                                                                         *)
(* Numbers: readings and thresholds are Python floats in the source; the   *)
(* model draws integer values, and the ratio tests of the source           *)
(* (x * 0.8, x * 1.2, x * 0.5, x * 1.5) are written as the equivalent      *)
(* integer comparisons (5*v < 4*x, 5*v > 6*x, 2*v < x, 2*v > 3*x), which   *)
(* agree with the float comparisons for every integer value and every      *)
(* number of the configuration table.                                      *)
(* Time: datetime values are integers counting hours; datetime.now() is    *)
(* the variable now, which only Tick advances.                             *)
(* Identifiers: "S-0001", "R-00000001", "A-000001" are the zero-padded     *)
(* decimal rendering of a positive integer, an injective formatting; the   *)
(* model keeps the integer.                                                *)
(* Optional values (timestamp=None, resolution_time=None) are sequences of *)
(* length 0 or 1.                                                          *)
(* Observation: ret is the outcome of the last operation (its name, its ID *)
(* argument, whether it raised, its return value) and calls the listener   *)
(* invocations it made, in order.  The queries (get_sensor_history,        *)
(* get_active_alerts, calculate_comfort_score, get_network_status) write   *)
(* nothing and are operators over the state.                               *)
(* The specifications share the operations: Spec (the alert engine),       *)
(* SpecHistory (the reading log over time), SpecClassify (one reading per  *)
(* sensor category), SpecComfort (the comfort score), SpecNetwork (the     *)
(* network status), SpecLifecycle (alerts over time) and SpecReentrant     *)
(* (listeners that call back into the engine).                             *)
(***************************************************************************)
EXTENDS Integers, Sequences, FiniteSets, TLC

\* Bounds of the model: sensors, logged readings, listeners and clock ticks of
\* Spec and SpecHistory; sensors and readings of SpecClassify, SpecComfort,
\* SpecNetwork and SpecLifecycle; sensors, listeners and readings ingested by
\* a caller of SpecReentrant
MaxSensors == 2
MaxReadings == 2
MaxListeners == 2
MaxTime == 1
MaxClassifySensors == 1
MaxClassifyReadings == 1
MaxComfortSensors == 2
MaxComfortReadings == 1
MaxNetworkSensors == 3
MaxNetworkReadings == 1
MaxLifecycleSensors == 1
MaxLifecycleReadings == 1
MaxReentrantSensors == 1
MaxReentrantListeners == 2
MaxReentrantReadings == 2

VARIABLES sensors, readings, alerts, alert_callbacks,
          reading_counter, alert_counter, now, ret, calls

vars == <<sensors, readings, alerts, alert_callbacks,
          reading_counter, alert_counter, now, ret, calls>>

engine == <<sensors, readings, alerts, alert_callbacks,
            reading_counter, alert_counter>>

\* class SensorType
SensorType ==
  {"TEMPERATURE", "HUMIDITY", "AIR_QUALITY", "CO2", "VOC", "PARTICULATE",
   "NOISE", "LIGHT", "MOTION", "DOOR_WINDOW", "WATER_LEAK", "SMOKE", "GAS",
   "RADON", "ELECTRICITY"}

\* class AlertSeverity
AlertSeverity == {"INFO", "WARNING", "CRITICAL", "EMERGENCY"}

Cfg(lo, hi, olo, ohi) ==
  [min_threshold |-> lo, max_threshold |-> hi, optimal_min |-> olo, optimal_max |-> ohi]

\* IoTSensorManager.SENSOR_CONFIG (the unit strings are left out)
SENSOR_CONFIG ==
  [t \in {"TEMPERATURE", "HUMIDITY", "AIR_QUALITY", "CO2", "VOC",
          "PARTICULATE", "NOISE", "LIGHT", "ELECTRICITY"} |->
     CASE t = "TEMPERATURE" -> Cfg(10, 35, 20, 26)
       [] t = "HUMIDITY"    -> Cfg(20, 80, 40, 60)
       [] t = "AIR_QUALITY" -> Cfg(0, 150, 0, 50)
       [] t = "CO2"         -> Cfg(400, 1000, 400, 600)
       [] t = "VOC"         -> Cfg(0, 500, 0, 100)
       [] t = "PARTICULATE" -> Cfg(0, 60, 0, 12)
       [] t = "NOISE"       -> Cfg(0, 70, 0, 45)
       [] t = "LIGHT"       -> Cfg(0, 10000, 300, 500)
       [] t = "ELECTRICITY" -> Cfg(0, 1000, 0, 30)]

\* self.SENSOR_CONFIG.get(sensor_type, {}).get(key, default)
ConfigGet(sensor_type, key, default) ==
  IF sensor_type \in DOMAIN SENSOR_CONFIG
  THEN SENSOR_CONFIG[sensor_type][key]
  ELSE default

\* Listeners: a callback returns or raises an Exception, the two outcomes the
\* try/except of _generate_alert tells apart (a BaseException that is no
\* Exception, such as SystemExit, ends the process and is not modelled)
ListenerKinds == {"returns", "raises"}

NoReturn == [op |-> "init", arg |-> 0, raised |-> FALSE, value |-> <<>>]

\* IoTSensorManager.__init__
Init ==
  /\ sensors = <<>>
  /\ readings = <<>>
  /\ alerts = <<>>
  /\ alert_callbacks = <<>>
  /\ reading_counter = 0
  /\ alert_counter = 0
  /\ now = 0
  /\ ret = NoReturn
  /\ calls = <<>>

\* A registration whose fallback optimal band is written the wrong way round
RegisterSensorSwappedDefaults(sensor_type) ==
  LET sensor_id == Len(sensors) + 1
      sensor == [sensor_id |-> sensor_id,
                 sensor_type |-> sensor_type,
                 status |-> "Online",
                 battery_level |-> 100,
                 last_reading |-> 0,
                 last_reading_time |-> now,
                 thresholds |->
                   [min |-> ConfigGet(sensor_type, "min_threshold", 0),
                    max |-> ConfigGet(sensor_type, "max_threshold", 100),
                    optimal_min |-> ConfigGet(sensor_type, "optimal_min", 80),
                    optimal_max |-> ConfigGet(sensor_type, "optimal_max", 20)]]
  IN  /\ sensors' = Append(sensors, sensor)
      /\ ret' = [op |-> "register_sensor", arg |-> sensor_id, raised |-> FALSE,
                 value |-> sensor]
      /\ calls' = <<>>
      /\ UNCHANGED <<readings, alerts, alert_callbacks, reading_counter,
                     alert_counter, now>>

\* IoTSensorManager.register_sensor
RegisterSensor(sensor_type) ==
  LET sensor_id == Len(sensors) + 1
      sensor == [sensor_id |-> sensor_id,
                 sensor_type |-> sensor_type,
                 status |-> "Online",
                 battery_level |-> 100,
                 last_reading |-> 0,
                 last_reading_time |-> now,
                 thresholds |->
                   [min |-> ConfigGet(sensor_type, "min_threshold", 0),
                    max |-> ConfigGet(sensor_type, "max_threshold", 100),
                    optimal_min |-> ConfigGet(sensor_type, "optimal_min", 20),
                    optimal_max |-> ConfigGet(sensor_type, "optimal_max", 80)]]
  IN  /\ sensors' = Append(sensors, sensor)
      /\ ret' = [op |-> "register_sensor", arg |-> sensor_id, raised |-> FALSE,
                 value |-> sensor]
      /\ calls' = <<>>
      /\ UNCHANGED <<readings, alerts, alert_callbacks, reading_counter,
                     alert_counter, now>>

\* A quality rule whose optimal band leaves out its two end points
AssessReadingQualityExclusive(value, sensor_type) ==
  LET optimal_min == ConfigGet(sensor_type, "optimal_min", 20)
      optimal_max == ConfigGet(sensor_type, "optimal_max", 80)
  IN  IF optimal_min < value /\ value < optimal_max THEN "Good"
      ELSE IF 5 * value < 4 * optimal_min \/ 5 * value > 6 * optimal_max THEN "Poor"
      ELSE "Fair"

\* A quality rule that reads the fallback band 20..80 for every category
AssessReadingQualityDefaults(value, sensor_type) ==
  IF 20 <= value /\ value <= 80 THEN "Good"
  ELSE IF 5 * value < 4 * 20 \/ 5 * value > 6 * 80 THEN "Poor"
  ELSE "Fair"

\* IoTSensorManager._assess_reading_quality
AssessReadingQuality(value, sensor_type) ==
  LET optimal_min == ConfigGet(sensor_type, "optimal_min", 20)
      optimal_max == ConfigGet(sensor_type, "optimal_max", 80)
  IN  IF optimal_min <= value /\ value <= optimal_max THEN "Good"
      ELSE IF 5 * value < 4 * optimal_min \/ 5 * value > 6 * optimal_max THEN "Poor"
      ELSE "Fair"

\* The same test with the bounds included (value <= min, value >= max)
CheckThresholdsInclusive(sensor, value) ==
  value <= sensor.thresholds.min \/ value >= sensor.thresholds.max

\* IoTSensorManager._check_thresholds
CheckThresholds(sensor, value) ==
  value < sensor.thresholds.min \/ value > sensor.thresholds.max

\* A severity rule whose high-side Warning test scales the value instead of
\* the maximum (value * 1.2 > max)
SeverityScaledValue(sensor, value) ==
  IF 2 * value > 3 * sensor.thresholds.max \/ 2 * value < sensor.thresholds.min
  THEN "CRITICAL"
  ELSE IF 6 * value > 5 * sensor.thresholds.max \/ 5 * value < 4 * sensor.thresholds.min
  THEN "WARNING"
  ELSE "INFO"

\* A severity rule whose low-side Critical test is turned round
\* (value > min * 0.5)
SeverityLowFlipped(sensor, value) ==
  IF 2 * value > 3 * sensor.thresholds.max \/ 2 * value > sensor.thresholds.min
  THEN "CRITICAL"
  ELSE IF 5 * value > 6 * sensor.thresholds.max \/ 5 * value < 4 * sensor.thresholds.min
  THEN "WARNING"
  ELSE "INFO"

\* A severity rule that tests the Warning factors before the Critical ones
SeverityWarningFirst(sensor, value) ==
  IF 5 * value > 6 * sensor.thresholds.max \/ 5 * value < 4 * sensor.thresholds.min
  THEN "WARNING"
  ELSE IF 2 * value > 3 * sensor.thresholds.max \/ 2 * value < sensor.thresholds.min
  THEN "CRITICAL"
  ELSE "INFO"

\* The severity rule of IoTSensorManager._generate_alert
Severity(sensor, value) ==
  IF 2 * value > 3 * sensor.thresholds.max \/ 2 * value < sensor.thresholds.min
  THEN "CRITICAL"
  ELSE IF 5 * value > 6 * sensor.thresholds.max \/ 5 * value < 4 * sensor.thresholds.min
  THEN "WARNING"
  ELSE "INFO"

\* The Alert record built by IoTSensorManager._generate_alert
NewAlert(sensor, value, alert_id) ==
  [alert_id |-> alert_id,
   sensor_id |-> sensor.sensor_id,
   severity |-> Severity(sensor, value),
   value |-> value,
   threshold |-> IF value > sensor.thresholds.max
                 THEN sensor.thresholds.max ELSE sensor.thresholds.min,
   timestamp |-> now,
   acknowledged |-> FALSE,
   resolved |-> FALSE,
   resolution_time |-> <<>>]

\* A fan-out without the try/except: the first raising listener ends it and
\* its exception leaves _generate_alert
RECURSIVE NotifyCallbacksUncaught(_, _, _)
NotifyCallbacksUncaught(callbacks, i, alert_id) ==
  IF i > Len(callbacks) THEN [calls |-> <<>>, raised |-> FALSE]
  ELSE LET call == [listener |-> i, alert_id |-> alert_id, outcome |-> callbacks[i]]
           rest == NotifyCallbacksUncaught(callbacks, i + 1, alert_id)
       IN  IF callbacks[i] = "raises"
           THEN [calls |-> <<call>>, raised |-> TRUE]
           ELSE [calls |-> <<call>> \o rest.calls, raised |-> rest.raised]

\* A fan-out that walks the listener list from its end
RECURSIVE NotifyCallbacksReversed(_, _, _)
NotifyCallbacksReversed(callbacks, i, alert_id) ==
  IF i > Len(callbacks) THEN [calls |-> <<>>, raised |-> FALSE]
  ELSE LET call == [listener |-> i, alert_id |-> alert_id, outcome |-> callbacks[i]]
           rest == NotifyCallbacksReversed(callbacks, i + 1, alert_id)
       IN  [calls |-> rest.calls \o <<call>>, raised |-> rest.raised]

\* The notification loop of IoTSensorManager._generate_alert, from listener i
\* on: every callback is invoked; an Exception it raises is caught and dropped
RECURSIVE NotifyCallbacks(_, _, _)
NotifyCallbacks(callbacks, i, alert_id) ==
  IF i > Len(callbacks) THEN [calls |-> <<>>, raised |-> FALSE]
  ELSE LET call == [listener |-> i, alert_id |-> alert_id, outcome |-> callbacks[i]]
           rest == NotifyCallbacks(callbacks, i + 1, alert_id)
       IN  [calls |-> <<call>> \o rest.calls, raised |-> rest.raised]

\* An alert creation that skips a sensor which already has an unresolved alert
GenerateAlertDedup(sensor, value) ==
  IF \E i \in DOMAIN alerts : alerts[i].sensor_id = sensor.sensor_id /\ ~alerts[i].resolved
  THEN [alert_counter |-> alert_counter, alerts |-> alerts, calls |-> <<>>,
        raised |-> FALSE]
  ELSE LET alert_id == alert_counter + 1
           notified == NotifyCallbacks(alert_callbacks, 1, alert_id)
       IN  [alert_counter |-> alert_id,
            alerts |-> Append(alerts, NewAlert(sensor, value, alert_id)),
            calls |-> notified.calls,
            raised |-> notified.raised]

\* An alert creation that numbers the alert after the unresolved alerts
\* instead of after the alert counter
GenerateAlertIdFromActive(sensor, value) ==
  LET alert_id == Len(SelectSeq(alerts, LAMBDA a : ~a.resolved)) + 1
      notified == NotifyCallbacks(alert_callbacks, 1, alert_id)
  IN  [alert_counter |-> alert_counter + 1,
       alerts |-> Append(alerts, NewAlert(sensor, value, alert_id)),
       calls |-> notified.calls,
       raised |-> notified.raised]

\* IoTSensorManager._generate_alert
GenerateAlert(sensor, value) ==
  LET alert_id == alert_counter + 1
      notified == NotifyCallbacks(alert_callbacks, 1, alert_id)
  IN  [alert_counter |-> alert_id,
       alerts |-> Append(alerts, NewAlert(sensor, value, alert_id)),
       calls |-> notified.calls,
       raised |-> notified.raised]

\* An unknown-sensor path that has already advanced the reading counter
IngestNotFoundCounted(sensor_id) ==
  /\ reading_counter' = reading_counter + 1
  /\ ret' = [op |-> "ingest_reading", arg |-> sensor_id, raised |-> TRUE,
             value |-> <<>>]
  /\ calls' = <<>>
  /\ UNCHANGED <<sensors, readings, alerts, alert_callbacks, alert_counter, now>>

\* IoTSensorManager.ingest_reading, sensor_id not in self.sensors: ValueError
IngestNotFound(sensor_id) ==
  /\ ret' = [op |-> "ingest_reading", arg |-> sensor_id, raised |-> TRUE,
             value |-> <<>>]
  /\ calls' = <<>>
  /\ UNCHANGED <<engine, now>>

\* A sensor update that keeps the last value when the new reading is stamped
\* earlier than it
UpdateSensorIfNewer(sensor, value, ts) ==
  IF ts >= sensor.last_reading_time
  THEN [sensor EXCEPT !.last_reading = value, !.last_reading_time = ts]
  ELSE sensor

\* A sensor update that takes a sensor out of service when its value is
\* outside the threshold band
UpdateSensorOfflineOnBreach(sensor, value, ts) ==
  [sensor EXCEPT !.last_reading = value,
                 !.last_reading_time = ts,
                 !.status = IF value < sensor.thresholds.min
                               \/ value > sensor.thresholds.max
                            THEN "Offline" ELSE sensor.status]

\* sensor.last_reading = value; sensor.last_reading_time = timestamp
UpdateSensor(sensor, value, ts) ==
  [sensor EXCEPT !.last_reading = value, !.last_reading_time = ts]

\* A store that puts the newest reading first
StoreReadingFirst(log, reading) == <<reading>> \o log

\* self.readings.append(reading)
StoreReading(log, reading) == Append(log, reading)

\* IoTSensorManager.ingest_reading
IngestReading(sensor_id, value, timestamp) ==
  IF sensor_id \notin DOMAIN sensors
  THEN IngestNotFound(sensor_id)
  ELSE LET sensor == sensors[sensor_id]
           ts == IF timestamp = <<>> THEN now ELSE timestamp[1]
           reading_id == reading_counter + 1
           triggered_alert == CheckThresholds(sensor, value)
           reading == [reading_id |-> reading_id,
                       sensor_id |-> sensor_id,
                       sensor_type |-> sensor.sensor_type,
                       value |-> value,
                       timestamp |-> ts,
                       quality |-> AssessReadingQuality(value, sensor.sensor_type),
                       triggered_alert |-> triggered_alert]
           updated == UpdateSensor(sensor, value, ts)
           generated == IF triggered_alert
                        THEN GenerateAlert(updated, value)
                        ELSE [alert_counter |-> alert_counter, alerts |-> alerts,
                              calls |-> <<>>, raised |-> FALSE]
       IN  /\ reading_counter' = reading_id
           /\ sensors' = [sensors EXCEPT ![sensor_id] = updated]
           /\ readings' = StoreReading(readings, reading)
           /\ alert_counter' = generated.alert_counter
           /\ alerts' = generated.alerts
           /\ calls' = generated.calls
           /\ ret' = [op |-> "ingest_reading", arg |-> sensor_id,
                      raised |-> generated.raised,
                      value |-> IF generated.raised THEN <<>> ELSE reading]
           /\ UNCHANGED <<alert_callbacks, now>>

\* IoTSensorManager.get_sensor_history; the result is never an exception
GetSensorHistory(sensor_id, hours) ==
  LET cutoff == now - hours
      kept == SelectSeq(readings,
                LAMBDA r : r.sensor_id = sensor_id /\ r.timestamp > cutoff)
  IN  [raised |-> FALSE,
       value |-> [i \in 1..Len(kept) |->
                    [value |-> kept[i].value,
                     timestamp |-> kept[i].timestamp,
                     quality |-> kept[i].quality]]]

\* A query that filters on the acknowledged flag instead of the resolved flag
GetActiveAlertsUnacknowledged == SelectSeq(alerts, LAMBDA a : ~a.acknowledged)

\* IoTSensorManager.get_active_alerts
GetActiveAlerts == SelectSeq(alerts, LAMBDA a : ~a.resolved)

\* The loop of acknowledge_alert and resolve_alert: the position of the first
\* alert with this alert_id, 0 when the loop ends without a match
FindAlert(alert_id) ==
  IF \E i \in DOMAIN alerts : alerts[i].alert_id = alert_id
  THEN CHOOSE i \in DOMAIN alerts :
         /\ alerts[i].alert_id = alert_id
         /\ \A j \in 1..(i - 1) : alerts[j].alert_id # alert_id
  ELSE 0

\* The flags of an alert as an operation finds them
Flags(i) ==
  IF i = 0 THEN <<>> ELSE <<alerts[i].acknowledged, alerts[i].resolved>>

\* An acknowledge that also clears the resolved flag
AcknowledgeAlertReopens(alert_id) ==
  LET i == FindAlert(alert_id)
  IN  /\ alerts' = IF i = 0 THEN alerts
                   ELSE [alerts EXCEPT ![i].acknowledged = TRUE,
                                       ![i].resolved = FALSE]
      /\ ret' = [op |-> "acknowledge_alert", arg |-> alert_id, raised |-> FALSE,
                 value |-> (i # 0), before |-> Flags(i)]
      /\ calls' = <<>>
      /\ UNCHANGED <<sensors, readings, alert_callbacks, reading_counter,
                     alert_counter, now>>

\* An acknowledge that also stamps a resolution time
AcknowledgeAlertStampsTime(alert_id) ==
  LET i == FindAlert(alert_id)
  IN  /\ alerts' = IF i = 0 THEN alerts
                   ELSE [alerts EXCEPT ![i].acknowledged = TRUE,
                                       ![i].resolution_time = <<now>>]
      /\ ret' = [op |-> "acknowledge_alert", arg |-> alert_id, raised |-> FALSE,
                 value |-> (i # 0), before |-> Flags(i)]
      /\ calls' = <<>>
      /\ UNCHANGED <<sensors, readings, alert_callbacks, reading_counter,
                     alert_counter, now>>

\* IoTSensorManager.acknowledge_alert
AcknowledgeAlert(alert_id) ==
  LET i == FindAlert(alert_id)
  IN  /\ alerts' = IF i = 0 THEN alerts
                   ELSE [alerts EXCEPT ![i].acknowledged = TRUE]
      /\ ret' = [op |-> "acknowledge_alert", arg |-> alert_id, raised |-> FALSE,
                 value |-> (i # 0), before |-> Flags(i)]
      /\ calls' = <<>>
      /\ UNCHANGED <<sensors, readings, alert_callbacks, reading_counter,
                     alert_counter, now>>

\* A resolve that toggles the flag instead of setting it
ResolveAlertToggles(alert_id) ==
  LET i == FindAlert(alert_id)
  IN  /\ alerts' = IF i = 0 THEN alerts
                   ELSE [alerts EXCEPT ![i].resolved = ~alerts[i].resolved,
                                       ![i].resolution_time = <<now>>]
      /\ ret' = [op |-> "resolve_alert", arg |-> alert_id, raised |-> FALSE,
                 value |-> (i # 0), before |-> Flags(i)]
      /\ calls' = <<>>
      /\ UNCHANGED <<sensors, readings, alert_callbacks, reading_counter,
                     alert_counter, now>>

\* A resolve that updates the loop variable after the loop: on a miss, the
\* newest alert
ResolveAlertFallsBack(alert_id) ==
  LET found == FindAlert(alert_id)
      i == IF found = 0 THEN Len(alerts) ELSE found
  IN  /\ alerts' = IF i = 0 THEN alerts
                   ELSE [alerts EXCEPT ![i].resolved = TRUE,
                                       ![i].resolution_time = <<now>>]
      /\ ret' = [op |-> "resolve_alert", arg |-> alert_id, raised |-> FALSE,
                 value |-> (found # 0), before |-> Flags(found)]
      /\ calls' = <<>>
      /\ UNCHANGED <<sensors, readings, alert_callbacks, reading_counter,
                     alert_counter, now>>

\* IoTSensorManager.resolve_alert
ResolveAlert(alert_id) ==
  LET i == FindAlert(alert_id)
  IN  /\ alerts' = IF i = 0 THEN alerts
                   ELSE [alerts EXCEPT ![i].resolved = TRUE,
                                       ![i].resolution_time = <<now>>]
      /\ ret' = [op |-> "resolve_alert", arg |-> alert_id, raised |-> FALSE,
                 value |-> (i # 0), before |-> Flags(i)]
      /\ calls' = <<>>
      /\ UNCHANGED <<sensors, readings, alert_callbacks, reading_counter,
                     alert_counter, now>>

\* IoTSensorManager.register_alert_callback
RegisterAlertCallback(callback) ==
  /\ alert_callbacks' = Append(alert_callbacks, callback)
  /\ ret' = [op |-> "register_alert_callback", arg |-> 0, raised |-> FALSE,
             value |-> <<>>]
  /\ calls' = <<>>
  /\ UNCHANGED <<sensors, readings, alerts, reading_counter, alert_counter, now>>

\* The passing of time between two operations
Tick ==
  /\ now < MaxTime
  /\ now' = now + 1
  /\ UNCHANGED <<engine, ret, calls>>

\* Inputs of the operations: the registered IDs and one unknown ID; for a
\* sensor, the values at and next to the ends of its bands
SensorIdInputs == 1..(Len(sensors) + 1)
AlertIdInputs == 1..(Len(alerts) + 1)
TimestampInputs == {<<>>} \cup {<<t>> : t \in 0..(MaxTime + 1)}
HoursInputs == 1..(MaxTime + 1)
BreachValues(sensor_id) ==
  IF sensor_id \in DOMAIN sensors
  THEN {sensors[sensor_id].thresholds.max, sensors[sensor_id].thresholds.max + 1}
  ELSE {0}
BandValues(sensor_id) ==
  IF sensor_id \in DOMAIN sensors
  THEN LET th == sensors[sensor_id].thresholds
       IN  {th.min - 1, th.min, th.optimal_min, th.optimal_max, th.max, th.max + 1}
  ELSE {0}

\* The values at and next to the ratio tests of the quality rule (0.8 and 1.2
\* times the optimal band) and of the severity rule (0.5 and 0.8 times min,
\* 1.2 and 1.5 times max), and the values of the documented scenarios
RatioValues(sensor_id) ==
  IF sensor_id \in DOMAIN sensors
  THEN LET th == sensors[sensor_id].thresholds
           lo == th.optimal_min
           hi == th.optimal_max
       IN  {lo - 1, hi + 1,
            (4 * lo) \div 5 - 1, (4 * lo) \div 5, (6 * hi) \div 5, (6 * hi) \div 5 + 1,
            th.min - 2,
            (4 * th.min) \div 5 - 1, (4 * th.min) \div 5,
            th.min \div 2 - 1, th.min \div 2,
            (6 * th.max) \div 5, (6 * th.max) \div 5 + 1,
            (3 * th.max) \div 2, (3 * th.max) \div 2 + 1}
  ELSE {}
ScenarioValues == {23, 40}
ProbeValues(sensor_id) ==
  BandValues(sensor_id) \cup RatioValues(sensor_id) \cup ScenarioValues

\* The alert engine: registration, ingestion with the default timestamp, the
\* alert lifecycle and the listeners, while the clock stands still
Next ==
  \/ /\ Len(sensors) < MaxSensors
     /\ RegisterSensor("TEMPERATURE")
  \/ /\ Len(readings) < MaxReadings
     /\ \E sensor_id \in SensorIdInputs :
          \E value \in BreachValues(sensor_id) :
            IngestReading(sensor_id, value, <<>>)
  \/ \E alert_id \in AlertIdInputs : AcknowledgeAlert(alert_id)
  \/ \E alert_id \in AlertIdInputs : ResolveAlert(alert_id)
  \/ /\ Len(alert_callbacks) < MaxListeners
     /\ \E callback \in ListenerKinds : RegisterAlertCallback(callback)

Spec == Init /\ [][Next]_vars

\* The reading log over time: readings arrive with explicit (past, present or
\* future) or default timestamps while the clock advances
NextHistory ==
  \/ /\ Len(sensors) < MaxSensors
     /\ RegisterSensor("TEMPERATURE")
  \/ /\ Len(readings) < MaxReadings
     /\ \E sensor_id \in SensorIdInputs, timestamp \in TimestampInputs :
          \E value \in BreachValues(sensor_id) :
            IngestReading(sensor_id, value, timestamp)
  \/ Tick

SpecHistory == Init /\ [][NextHistory]_vars

\* One reading per category: a sensor of any category of the enumeration and
\* the values around its bands and around the ratio tests
NextClassify ==
  \/ /\ Len(sensors) < MaxClassifySensors
     /\ \E sensor_type \in SensorType : RegisterSensor(sensor_type)
  \/ /\ Len(readings) < MaxClassifyReadings
     /\ \E sensor_id \in SensorIdInputs :
          \E value \in ProbeValues(sensor_id) :
            IngestReading(sensor_id, value, <<>>)

SpecClassify == Init /\ [][NextClassify]_vars

(***************************************************************************)
(* Comfort score.  The scores are Python floats in the source; the model   *)
(* computes them as exact fractions [n, d] with d > 0, kept in lowest      *)
(* terms.  A ZeroDivisionError of the source is the outcome raised.        *)
(***************************************************************************)
Abs(x) == IF x < 0 THEN -x ELSE x
Max(x, y) == IF x >= y THEN x ELSE y

RECURSIVE GCD(_, _)
GCD(x, y) == IF y = 0 THEN x ELSE GCD(y, x % y)

\* The fraction n / d (d > 0) in lowest terms
Rat(n, d) ==
  LET g == GCD(Abs(n), d)
  IN  [n |-> n \div g, d |-> d \div g]
RatAdd(a, b) == Rat(a.n * b.d + b.n * a.d, a.d * b.d)
RatLess(a, b) == a.n * b.d < b.n * a.d

\* round(x, 1) as a number of tenths: the nearest tenth.  When x lies exactly
\* between two tenths the float the source has computed lies a little to one
\* side or the other, so either of the two can be the result
RoundTenths(x) ==
  LET q == (10 * x.n) \div x.d
      r == (10 * x.n) % x.d
  IN  IF 2 * r > x.d THEN {q + 1}
      ELSE IF 2 * r < x.d THEN {q}
      ELSE {q, q + 1}

\* The weights of calculate_comfort_score in hundredths, and the order in
\* which the dictionary lists them
Weights ==
  [c \in {"TEMPERATURE", "HUMIDITY", "AIR_QUALITY", "CO2", "NOISE", "LIGHT"} |->
     CASE c = "TEMPERATURE" -> 25
       [] c = "HUMIDITY" -> 20
       [] c = "AIR_QUALITY" -> 25
       [] c = "CO2" -> 15
       [] c = "NOISE" -> 10
       [] c = "LIGHT" -> 5]
WeightOrder == <<"TEMPERATURE", "HUMIDITY", "AIR_QUALITY", "CO2", "NOISE", "LIGHT">>

\* IoTSensorManager._calculate_sensor_score; the divisions are by
\* optimal_max - mid inside the band, by optimal_min below it and by
\* optimal_max above it (none of the configured numbers is negative)
CalculateSensorScore(sensor) ==
  LET optimal_min == ConfigGet(sensor.sensor_type, "optimal_min", 20)
      optimal_max == ConfigGet(sensor.sensor_type, "optimal_max", 80)
      value == sensor.last_reading
      width == optimal_max - optimal_min
  IN  IF optimal_min <= value /\ value <= optimal_max
      THEN IF width = 0
           THEN [raised |-> TRUE, score |-> <<>>]
           ELSE [raised |-> FALSE,
                 score |-> <<Rat(100 * width
                                   - 20 * Abs(2 * value - optimal_min - optimal_max),
                                 width)>>]
      ELSE IF value < optimal_min
      THEN IF optimal_min = 0
           THEN [raised |-> TRUE, score |-> <<>>]
           ELSE [raised |-> FALSE,
                 score |-> <<Rat(Max(0, 80 * optimal_min - 50 * (optimal_min - value)),
                                 optimal_min)>>]
      ELSE IF optimal_max = 0
           THEN [raised |-> TRUE, score |-> <<>>]
           ELSE [raised |-> FALSE,
                 score |-> <<Rat(Max(0, 80 * optimal_max - 50 * (value - optimal_max)),
                                 optimal_max)>>]

\* IoTSensorManager._score_to_category
ScoreToCategory(score) ==
  IF ~RatLess(score, Rat(90, 1)) THEN "Excellent"
  ELSE IF ~RatLess(score, Rat(75, 1)) THEN "Good"
  ELSE IF ~RatLess(score, Rat(60, 1)) THEN "Fair"
  ELSE IF ~RatLess(score, Rat(40, 1)) THEN "Poor"
  ELSE "Critical"

\* The categories _generate_comfort_recommendations looks at, in its order,
\* and the string of each
RecommendationOrder == <<"TEMPERATURE", "HUMIDITY", "AIR_QUALITY", "CO2", "NOISE">>
Recommendation(category) ==
  CASE category = "TEMPERATURE" -> "Adjust HVAC temperature settings"
    [] category = "HUMIDITY" -> "Consider using humidifier/dehumidifier"
    [] category = "AIR_QUALITY" -> "Improve ventilation or use air purifier"
    [] category = "CO2" -> "Increase fresh air intake"
    [] category = "NOISE" -> "Investigate noise sources"
AllOptimal == "All parameters within optimal range"

\* scores.get(category, 100) < 70
Below70(scores, category) ==
  category \in DOMAIN scores /\ RatLess(scores[category], Rat(70, 1))

\* IoTSensorManager._generate_comfort_recommendations
GenerateComfortRecommendations(scores) ==
  LET low == SelectSeq(RecommendationOrder, LAMBDA c : Below70(scores, c))
  IN  IF low = <<>> THEN <<AllOptimal>>
      ELSE [k \in DOMAIN low |-> Recommendation(low[k])]

\* The first loop of calculate_comfort_score: the dictionary scores, keyed by
\* category, after the sensors have been visited in registration order (a
\* later sensor of a category overwrites the entry of an earlier one)
ComponentScores ==
  LET scored == {i \in DOMAIN sensors : sensors[i].sensor_type \in DOMAIN Weights}
      last(c) == CHOOSE i \in scored :
                   /\ sensors[i].sensor_type = c
                   /\ \A j \in scored : sensors[j].sensor_type = c => j <= i
  IN  [c \in {sensors[i].sensor_type : i \in scored} |->
         CalculateSensorScore(sensors[last(c)]).score[1]]

\* The second loop of calculate_comfort_score from position k of the weights:
\* the weighted sum and the total weight of the categories that have a score
RECURSIVE WeightedSum(_, _)
WeightedSum(scores, k) ==
  IF k > Len(WeightOrder) THEN [sum |-> Rat(0, 1), weight |-> 0]
  ELSE LET c == WeightOrder[k]
           rest == WeightedSum(scores, k + 1)
       IN  IF c \in DOMAIN scores
           THEN [sum |-> RatAdd(Rat(scores[c].n * Weights[c], scores[c].d), rest.sum),
                 weight |-> Weights[c] + rest.weight]
           ELSE rest

\* IoTSensorManager.calculate_comfort_score; overall_score is the set of the
\* tenths round(overall, 1) can give
CalculateComfortScore ==
  IF \E i \in DOMAIN sensors :
       /\ sensors[i].sensor_type \in DOMAIN Weights
       /\ CalculateSensorScore(sensors[i]).raised
  THEN [raised |-> TRUE, value |-> <<>>]
  ELSE LET scores == ComponentScores
           total == WeightedSum(scores, 1)
           overall == IF total.weight > 0
                      THEN Rat(total.sum.n, total.sum.d * total.weight)
                      ELSE Rat(50, 1)
       IN  [raised |-> FALSE,
            value |-> <<[overall |-> overall,
                         overall_score |-> RoundTenths(overall),
                         category |-> ScoreToCategory(overall),
                         component_scores |-> scores,
                         recommendations |->
                           GenerateComfortRecommendations(scores)]>>]

\* The categories of the comfort slice: the six weighted ones and one that
\* has no weight; the values around the optimal band of a sensor: below it,
\* on 0.8 * optimal_min (score 70), its middle (score 100), its upper end,
\* above it, and far above it (score 0)
ComfortTypes == DOMAIN Weights \cup {"MOTION"}
ComfortValues(sensor_id) ==
  LET th == sensors[sensor_id].thresholds
  IN  {th.optimal_min - 1, (4 * th.optimal_min) \div 5,
       (th.optimal_min + th.optimal_max) \div 2,
       th.optimal_max, th.optimal_max + 1, 3 * th.optimal_max}

\* The comfort score over a population: sensors of the weighted categories,
\* also several of one category, each read at most as often as the bound says
NextComfort ==
  \/ /\ Len(sensors) < MaxComfortSensors
     /\ \E sensor_type \in ComfortTypes : RegisterSensor(sensor_type)
  \/ /\ Len(readings) < MaxComfortReadings
     /\ \E sensor_id \in DOMAIN sensors :
          \E value \in ComfortValues(sensor_id) :
            IngestReading(sensor_id, value, <<>>)

SpecComfort == Init /\ [][NextComfort]_vars

(***************************************************************************)
(* Network status.  The engine has no operation that writes the status of  *)
(* a sensor; register_sensor hands the Sensor object itself to the caller, *)
(* and StatusWrite is the caller assigning its status field.               *)
(***************************************************************************)
SensorStatus == {"Online", "Offline", "Maintenance"}
HoursPerDay == 24

\* A health rule whose Critical test looks at all alerts, resolved ones too
NetworkHealthAllAlerts(offline, active_alerts) ==
  IF offline = 0 /\ Len(active_alerts) = 0 THEN "Excellent"
  ELSE IF offline <= 1
          /\ Len(SelectSeq(alerts, LAMBDA a : a.severity = "CRITICAL")) = 0
  THEN "Good"
  ELSE IF offline <= 2 THEN "Fair"
  ELSE "Poor"

\* The health rule of IoTSensorManager.get_network_status
NetworkHealth(offline, active_alerts) ==
  IF offline = 0 /\ Len(active_alerts) = 0 THEN "Excellent"
  ELSE IF offline <= 1
          /\ Len(SelectSeq(active_alerts, LAMBDA a : a.severity = "CRITICAL")) = 0
  THEN "Good"
  ELSE IF offline <= 2 THEN "Fair"
  ELSE "Poor"

\* IoTSensorManager.get_network_status
GetNetworkStatus ==
  LET online == Len(SelectSeq(sensors, LAMBDA s : s.status = "Online"))
      offline == Len(sensors) - online
      active_alerts == SelectSeq(alerts, LAMBDA a : ~a.resolved)
      today == now \div HoursPerDay
  IN  [total_sensors |-> Len(sensors),
       online_sensors |-> online,
       offline_sensors |-> offline,
       sensors |-> sensors,
       active_alerts |-> active_alerts,
       daily_readings |->
         Len(SelectSeq(readings, LAMBDA r : r.timestamp \div HoursPerDay = today)),
       network_health |-> NetworkHealth(offline, active_alerts)]

\* A caller assigns the status field of a registered sensor
StatusWrite(sensor_id, status) ==
  /\ sensor_id \in DOMAIN sensors
  /\ sensors[sensor_id].status # status
  /\ sensors' = [sensors EXCEPT ![sensor_id].status = status]
  /\ UNCHANGED <<readings, alerts, alert_callbacks, reading_counter,
                 alert_counter, now, ret, calls>>

\* The values of the network slice: a breach that makes an Info alert and one
\* that makes a Critical alert
SeverityValues(sensor_id) ==
  {sensors[sensor_id].thresholds.max + 1, 2 * sensors[sensor_id].thresholds.max}

\* The network status over a population whose sensors go offline and come
\* back, with alerts that are raised and resolved
NextNetwork ==
  \/ /\ Len(sensors) < MaxNetworkSensors
     /\ RegisterSensor("TEMPERATURE")
  \/ /\ Len(readings) < MaxNetworkReadings
     /\ \E sensor_id \in DOMAIN sensors :
          \E value \in SeverityValues(sensor_id) :
            IngestReading(sensor_id, value, <<>>)
  \/ \E alert_id \in AlertIdInputs : ResolveAlert(alert_id)
  \/ \E sensor_id \in DOMAIN sensors :
       \E status \in SensorStatus : StatusWrite(sensor_id, status)

SpecNetwork == Init /\ [][NextNetwork]_vars

\* The life of an alert over time: Info and Critical alerts of one sensor are
\* raised, acknowledged and resolved, once or repeatedly, while the clock
\* advances
NextLifecycle ==
  \/ /\ Len(sensors) < MaxLifecycleSensors
     /\ RegisterSensor("TEMPERATURE")
  \/ /\ Len(readings) < MaxLifecycleReadings
     /\ \E sensor_id \in DOMAIN sensors :
          \E value \in SeverityValues(sensor_id) :
            IngestReading(sensor_id, value, <<>>)
  \/ \E alert_id \in AlertIdInputs : AcknowledgeAlert(alert_id)
  \/ \E alert_id \in AlertIdInputs : ResolveAlert(alert_id)
  \/ Tick

SpecLifecycle == Init /\ [][NextLifecycle]_vars

(***************************************************************************)
(* Listeners that call back into the engine.  A listener is a Python       *)
(* callable and may call ingest_reading itself; the nested call runs to    *)
(* its end, fan-out of its own alert included, before the listener returns *)
(* and the outer fan-out goes on.  The listener "reenters" is              *)
(*   lambda alert: alert.value == max + 1 and                              *)
(*                 manager.ingest_reading(alert.sensor_id, alert.value + 1)*)
(* for the max threshold of the sensor of the alert: it answers the first  *)
(* breaching value with one more reading and returns on any other alert.   *)
(* An ingest is computed on a record of the engine fields; each listener   *)
(* invocation is recorded with what the listener can see at that moment.   *)
(***************************************************************************)
ReentrantListenerKinds == ListenerKinds \cup {"reenters"}

EngineState ==
  [sensors |-> sensors, readings |-> readings, alerts |-> alerts,
   reading_counter |-> reading_counter, alert_counter |-> alert_counter,
   calls |-> <<>>]

\* What a listener invoked with alert can read from the engine
Seen(st, alert) ==
  [log_last |-> IF st.readings = <<>> THEN <<>>
                ELSE <<st.readings[Len(st.readings)]>>,
   last_reading |-> st.sensors[alert.sensor_id].last_reading,
   last_reading_time |-> st.sensors[alert.sensor_id].last_reading_time,
   listed |-> \E k \in DOMAIN st.alerts : st.alerts[k] = alert,
   active |-> \E k \in DOMAIN st.alerts :
                st.alerts[k] = alert /\ ~st.alerts[k].resolved]

Reenters(st, kind, alert) ==
  /\ kind = "reenters"
  /\ alert.value = st.sensors[alert.sensor_id].thresholds.max + 1

RECURSIVE IngestIn(_, _, _, _)
RECURSIVE NotifyIn(_, _, _)

\* The loop over self.alert_callbacks in _generate_alert from listener i on;
\* an exception of a listener is caught and dropped
NotifyIn(st, i, alert) ==
  IF i > Len(alert_callbacks) THEN st
  ELSE LET call == [listener |-> i, alert_id |-> alert.alert_id,
                    outcome |-> alert_callbacks[i], seen |-> Seen(st, alert)]
           called == [st EXCEPT !.calls = Append(st.calls, call)]
           returned == IF Reenters(st, alert_callbacks[i], alert)
                       THEN IngestIn(called, alert.sensor_id, alert.value + 1, now)
                       ELSE called
       IN  NotifyIn(returned, i + 1, alert)

\* ingest_reading for a registered sensor, with _generate_alert and the
\* fan-out, nested ingests of the listeners included
IngestIn(st, sensor_id, value, ts) ==
  LET sensor == st.sensors[sensor_id]
      reading_id == st.reading_counter + 1
      triggered_alert == CheckThresholds(sensor, value)
      reading == [reading_id |-> reading_id,
                  sensor_id |-> sensor_id,
                  sensor_type |-> sensor.sensor_type,
                  value |-> value,
                  timestamp |-> ts,
                  quality |-> AssessReadingQuality(value, sensor.sensor_type),
                  triggered_alert |-> triggered_alert]
      updated == UpdateSensor(sensor, value, ts)
      stored == [st EXCEPT !.reading_counter = reading_id,
                           !.sensors[sensor_id] = updated,
                           !.readings = StoreReading(st.readings, reading)]
      alert_id == stored.alert_counter + 1
      alert == NewAlert(updated, value, alert_id)
      alerted == [stored EXCEPT !.alert_counter = alert_id,
                                !.alerts = Append(stored.alerts, alert)]
  IN  IF triggered_alert THEN NotifyIn(alerted, 1, alert) ELSE stored

\* IoTSensorManager.ingest_reading with listeners that may re-enter
IngestReentrant(sensor_id, value) ==
  IF sensor_id \notin DOMAIN sensors
  THEN IngestNotFound(sensor_id)
  ELSE LET st == IngestIn(EngineState, sensor_id, value, now)
       IN  /\ sensors' = st.sensors
           /\ readings' = st.readings
           /\ alerts' = st.alerts
           /\ reading_counter' = st.reading_counter
           /\ alert_counter' = st.alert_counter
           /\ calls' = st.calls
           /\ ret' = [op |-> "ingest_reading", arg |-> sensor_id,
                      raised |-> FALSE,
                      value |-> st.readings[Len(readings) + 1]]
           /\ UNCHANGED <<alert_callbacks, now>>

\* Re-entrant listeners: listeners of the three kinds are registered and
\* readings at and above max are ingested
NextReentrant ==
  \/ /\ Len(sensors) < MaxReentrantSensors
     /\ RegisterSensor("TEMPERATURE")
  \/ /\ Len(alert_callbacks) < MaxReentrantListeners
     /\ \E callback \in ReentrantListenerKinds : RegisterAlertCallback(callback)
  \/ /\ Len(readings) < MaxReentrantReadings
     /\ \E sensor_id \in SensorIdInputs :
          \E value \in BreachValues(sensor_id) :
            IngestReentrant(sensor_id, value)

SpecReentrant == Init /\ [][NextReentrant]_vars

(***************************************************************************)
(* Properties                                                              *)
(***************************************************************************)
Last(seq) == seq[Len(seq)]
IngestReturned == ret.op = "ingest_reading" /\ ~ret.raised
AlertsWithId(alert_id) == {i \in DOMAIN alerts : alerts[i].alert_id = alert_id}

\* C1: every logged reading, and the reading ingest_reading returns, has
\* triggered_alert = TRUE exactly when its value is below thresholds.min or
\* above thresholds.max of its sensor; min and max themselves are no breach.
C1_BreachFlag ==
  /\ \A i \in DOMAIN readings :
       LET th == sensors[readings[i].sensor_id].thresholds
       IN  readings[i].triggered_alert <=>
             (readings[i].value < th.min \/ readings[i].value > th.max)
  /\ IngestReturned => ret.value = Last(readings)

C1_Witness ==
  /\ IngestReturned
  /\ ret.value.value = sensors[ret.arg].thresholds.max
  /\ ~ret.value.triggered_alert

\* C2: the alerts are, one for one and in order, the logged readings with
\* triggered_alert = TRUE: each breaching ingest adds one alert for its
\* sensor and value, resolved or not the earlier ones, and no other ingest
\* adds any.
C2_OneAlertPerBreach ==
  LET breaches == SelectSeq(readings, LAMBDA r : r.triggered_alert)
  IN  /\ Len(alerts) = Len(breaches)
      /\ \A k \in DOMAIN alerts :
           /\ alerts[k].sensor_id = breaches[k].sensor_id
           /\ alerts[k].value = breaches[k].value

C2_Witness ==
  /\ IngestReturned
  /\ Len(alerts) = 2
  /\ alerts[1].sensor_id = alerts[2].sensor_id
  /\ ~alerts[1].resolved

\* C3: on an existing alert acknowledge_alert returns TRUE, leaves
\* acknowledged = TRUE and keeps the resolved flag, whatever the flags were;
\* resolve_alert returns TRUE, leaves resolved = TRUE and keeps the
\* acknowledged flag, whatever the flags were.
C3_LifecycleIndependent ==
  [][/\ ret'.op = "acknowledge_alert" =>
          \A i \in AlertsWithId(ret'.arg) :
            /\ ret'.value = TRUE /\ ~ret'.raised
            /\ alerts'[i].acknowledged
            /\ alerts'[i].resolved = alerts[i].resolved
     /\ ret'.op = "resolve_alert" =>
          \A i \in AlertsWithId(ret'.arg) :
            /\ ret'.value = TRUE /\ ~ret'.raised
            /\ alerts'[i].resolved
            /\ alerts'[i].acknowledged = alerts[i].acknowledged]_vars

C3_Witness ==
  /\ ret.op = "acknowledge_alert"
  /\ ret.value = TRUE
  /\ ret.before = <<TRUE, TRUE>>

\* C4: an alert that is resolved stays in the list, keeps its ID, is resolved
\* after every step and is not among get_active_alerts; an alert that is
\* acknowledged is acknowledged after every step.
C4_ResolvedIsTerminal ==
  [][\A i \in DOMAIN alerts :
       /\ i \in DOMAIN alerts'
       /\ alerts'[i].alert_id = alerts[i].alert_id
       /\ alerts[i].acknowledged => alerts'[i].acknowledged
       /\ alerts[i].resolved =>
            /\ alerts'[i].resolved
            /\ \A k \in DOMAIN GetActiveAlerts' :
                 GetActiveAlerts'[k].alert_id # alerts[i].alert_id]_vars

C4_Witness ==
  /\ ret.op = "resolve_alert"
  /\ ret.value = TRUE
  /\ ret.before = <<TRUE, TRUE>>
  /\ Len(GetActiveAlerts) < Len(alerts)

\* C5: an ingest_reading for a registered sensor returns its reading, which is
\* the last entry of the log, whatever the listeners do; when the reading is
\* a breach, its alert is the last of the alert list and every registered
\* listener, those after a raising one included, was invoked for that alert.
C5_ListenerIsolation ==
  (ret.op = "ingest_reading" /\ ret.arg \in DOMAIN sensors) =>
    /\ ~ret.raised
    /\ ret.value = Last(readings)
    /\ ret.value.triggered_alert =>
         /\ alerts # <<>>
         /\ Last(alerts).sensor_id = ret.arg
         /\ Last(alerts).value = ret.value.value
         /\ \A k \in DOMAIN alert_callbacks :
              \E c \in DOMAIN calls :
                /\ calls[c].listener = k
                /\ calls[c].alert_id = Last(alerts).alert_id

C5_Witness ==
  /\ IngestReturned
  /\ ret.value.triggered_alert
  /\ Len(alert_callbacks) = 2
  /\ alert_callbacks[1] = "raises"
  /\ calls[2].listener = 2

\* C6: the listener invocations of an operation are, for a breaching
\* ingest_reading, one per registered listener, in registration order, each
\* with the alert just created; every other operation invokes no listener.
C6_FanOut ==
  IF IngestReturned /\ ret.value.triggered_alert
  THEN calls = [k \in 1..Len(alert_callbacks) |->
                  [listener |-> k,
                   alert_id |-> Last(alerts).alert_id,
                   outcome |-> alert_callbacks[k]]]
  ELSE calls = <<>>

C6_Witness ==
  /\ IngestReturned
  /\ Len(calls) = 2
  /\ calls[1].listener = 1
  /\ calls[2].listener = 2

\* C7: an ingest_reading for a sensor ID that is not registered raises and
\* changes nothing: sensors, reading log, alerts, listeners and both counters
\* are as before, and no listener is invoked.
C7_UnknownSensorIngest ==
  [][(ret'.op = "ingest_reading" /\ ret'.arg \notin DOMAIN sensors) =>
       /\ ret'.raised
       /\ calls' = <<>>
       /\ UNCHANGED engine]_vars

C7_Witness ==
  /\ ret.op = "ingest_reading"
  /\ ret.raised
  /\ ret.arg \notin DOMAIN sensors
  /\ readings # <<>>
  /\ alert_callbacks # <<>>

\* C8: a history query for a sensor ID that is not registered is a hard
\* error, not an empty result.
C8_UnknownSensorHistoryRaises ==
  \A sensor_id \in SensorIdInputs, hours \in HoursInputs :
    sensor_id \notin DOMAIN sensors => GetSensorHistory(sensor_id, hours).raised

\* C9: acknowledge_alert and resolve_alert with an alert ID that no alert has
\* return FALSE, raise nothing and leave the alerts, the reading log and the
\* sensors as they were.
C9_SoftMiss ==
  [][(ret'.op \in {"acknowledge_alert", "resolve_alert"}
        /\ AlertsWithId(ret'.arg) = {}) =>
       /\ ret'.value = FALSE
       /\ ~ret'.raised
       /\ UNCHANGED <<alerts, readings, sensors>>]_vars

C9_Witness ==
  /\ ret.op = "resolve_alert"
  /\ ret.value = FALSE
  /\ alerts # <<>>

\* The log positions a history query is to return
HistoryEntry(r) == [value |-> r.value, timestamp |-> r.timestamp, quality |-> r.quality]
Returns(result, positions) ==
  /\ Len(result) = Cardinality(positions)
  /\ \A k \in DOMAIN result :
       \E i \in positions : result[k] = HistoryEntry(readings[i])
  /\ \A i \in positions :
       \E k \in DOMAIN result : result[k] = HistoryEntry(readings[i])

\* C10: get_sensor_history(id, hours) returns exactly the logged readings of
\* sensor id whose timestamp lies in [now - hours, now]; no reading of another
\* sensor, stamped before now - hours or stamped after now is returned.
C10_HistoryTrailingWindow ==
  \A sensor_id \in SensorIdInputs, hours \in HoursInputs :
    Returns(GetSensorHistory(sensor_id, hours).value,
            {i \in DOMAIN readings :
               /\ readings[i].sensor_id = sensor_id
               /\ now - hours <= readings[i].timestamp
               /\ readings[i].timestamp <= now})

\* C11: the entries get_sensor_history returns are in chronological order
\* (timestamps never decrease along the result), whatever the order in which
\* the readings were ingested.
C11_HistoryChronological ==
  \A sensor_id \in SensorIdInputs, hours \in HoursInputs :
    LET result == GetSensorHistory(sensor_id, hours).value
    IN  \A k, l \in DOMAIN result :
          k < l => result[k].timestamp <= result[l].timestamp

\* The optimal band of the sensor a reading belongs to
Band(reading) ==
  [lo |-> sensors[reading.sensor_id].thresholds.optimal_min,
   hi |-> sensors[reading.sensor_id].thresholds.optimal_max]
InBand(reading) ==
  Band(reading).lo <= reading.value /\ reading.value <= Band(reading).hi
FarFromBand(reading) ==
  \/ 5 * reading.value < 4 * Band(reading).lo
  \/ 5 * reading.value > 6 * Band(reading).hi

\* C12: every logged reading has exactly one of the qualities Good, Fair and
\* Poor: Good exactly when lo <= value <= hi for the optimal band [lo, hi] of
\* its sensor, Poor exactly when it is outside the band and value < 0.8 * lo
\* or value > 1.2 * hi, Fair in every other case.
C12_QualityClassification ==
  \A i \in DOMAIN readings :
    /\ readings[i].quality \in {"Good", "Fair", "Poor"}
    /\ readings[i].quality = "Good" <=> InBand(readings[i])
    /\ readings[i].quality = "Poor" <=>
         (~InBand(readings[i]) /\ FarFromBand(readings[i]))
    /\ readings[i].quality = "Fair" <=>
         (~InBand(readings[i]) /\ ~FarFromBand(readings[i]))

\* A Fair reading that sits exactly on 0.8 * lo or on 1.2 * hi has been logged
C12_Witness ==
  \E i \in DOMAIN readings :
    /\ readings[i].quality = "Fair"
    /\ \/ 5 * readings[i].value = 4 * Band(readings[i]).lo
       \/ 5 * readings[i].value = 6 * Band(readings[i]).hi
    /\ IngestReturned
    /\ ret.value = readings[i]

\* The scenario of a TEMPERATURE sensor with the default configuration that
\* ingests 40: the readings it logs, and the alerts it creates
DefaultTemperature ==
  [min |-> 10, max |-> 35, optimal_min |-> 20, optimal_max |-> 26]
ScenarioReadings ==
  {i \in DOMAIN readings :
     /\ sensors[readings[i].sensor_id].sensor_type = "TEMPERATURE"
     /\ readings[i].value = 40}
ScenarioAlerts ==
  {k \in DOMAIN alerts :
     /\ sensors[alerts[k].sensor_id].sensor_type = "TEMPERATURE"
     /\ alerts[k].value = 40}
ScenarioSeverity(severity) ==
  /\ \A j \in DOMAIN sensors :
       sensors[j].sensor_type = "TEMPERATURE" =>
         sensors[j].thresholds = DefaultTemperature
  /\ \A i \in ScenarioReadings :
       /\ readings[i].quality = "Poor"
       /\ readings[i].triggered_alert
       /\ \E k \in ScenarioAlerts : alerts[k].sensor_id = readings[i].sensor_id
  /\ \A k \in ScenarioAlerts : alerts[k].severity = severity

\* C13 as stated: a TEMPERATURE sensor with the default configuration
\* (optimal 20..26, min 10, max 35) that ingests 40 logs a Poor reading with
\* triggered_alert = TRUE, and the alert created has severity Warning.
C13_ScenarioWarning == ScenarioSeverity("WARNING")

\* C13: a TEMPERATURE sensor with the default configuration (optimal 20..26,
\* min 10, max 35) that ingests 40 logs a Poor reading with
\* triggered_alert = TRUE, and the alert created has severity Info (40 is not
\* above 1.2 * 35 = 42).
C13_ScenarioInfo == ScenarioSeverity("INFO")

\* The last operation ingested 40 on a TEMPERATURE sensor and created an alert
C13_Witness ==
  /\ IngestReturned
  /\ ret.value.value = 40
  /\ sensors[ret.arg].sensor_type = "TEMPERATURE"
  /\ ScenarioReadings # {}
  /\ ScenarioAlerts # {}

\* The order of the severities, and "w breaches on the same side as v and at
\* least as far out"
Rank(severity) ==
  CASE severity = "INFO" -> 1
    [] severity = "WARNING" -> 2
    [] severity = "CRITICAL" -> 3
    [] severity = "EMERGENCY" -> 4
Further(sensor, v, w) ==
  \/ v > sensor.thresholds.max /\ w >= v
  \/ v < sensor.thresholds.min /\ w <= v

\* C14: for a sensor of any category, a value that breaches on the same side
\* as the value of one of its alerts and lies at least as far out never gets
\* a lower severity than that alert has (Info <= Warning <= Critical), both
\* for the severity rule applied to such a value and for any two alerts of
\* the sensor; categories with min = 0 included.
C14_SeverityOrdering ==
  \A k \in DOMAIN alerts :
    LET sensor == sensors[alerts[k].sensor_id]
    IN  /\ \A w \in ProbeValues(sensor.sensor_id) :
             Further(sensor, alerts[k].value, w) =>
               Rank(alerts[k].severity) <= Rank(Severity(sensor, w))
        /\ \A l \in DOMAIN alerts :
             (alerts[l].sensor_id = alerts[k].sensor_id
                /\ Further(sensor, alerts[k].value, alerts[l].value)) =>
               Rank(alerts[k].severity) <= Rank(alerts[l].severity)

\* A sensor with min = 0 has an alert for a value below 0, and a value further
\* down is at hand; a sensor with min > 0 would do the same for Info
C14_Witness ==
  \E k \in DOMAIN alerts :
    LET sensor == sensors[alerts[k].sensor_id]
    IN  /\ sensor.thresholds.min = 0
        /\ alerts[k].value < 0
        /\ alerts[k].severity = "CRITICAL"
        /\ \E w \in ProbeValues(sensor.sensor_id) : w < alerts[k].value

\* C15: every alert has severity Critical if its value is above 1.5 * max or
\* below 0.5 * min of its sensor, else Warning if the value is above 1.2 * max
\* or below 0.8 * min, else Info; no alert has severity Emergency.
C15_SeverityRule ==
  \A k \in DOMAIN alerts :
    LET th == sensors[alerts[k].sensor_id].thresholds
        v == alerts[k].value
        critical == 2 * v > 3 * th.max \/ 2 * v < th.min
        warning == 5 * v > 6 * th.max \/ 5 * v < 4 * th.min
    IN  /\ alerts[k].severity \in AlertSeverity \ {"EMERGENCY"}
        /\ alerts[k].severity = "CRITICAL" <=> critical
        /\ alerts[k].severity = "WARNING" <=> (~critical /\ warning)
        /\ alerts[k].severity = "INFO" <=> (~critical /\ ~warning)

\* The last ingest created a Critical alert for a value above 1.5 * max
C15_Witness ==
  /\ IngestReturned
  /\ alerts # <<>>
  /\ Last(alerts).sensor_id = ret.arg
  /\ Last(alerts).value = ret.value.value
  /\ 2 * Last(alerts).value > 3 * sensors[ret.arg].thresholds.max
  /\ Last(alerts).severity = "CRITICAL"

\* C16: get_active_alerts returns exactly the alerts whose resolved flag is
\* FALSE, acknowledged or not, each once and in the order of their creation;
\* a resolved alert is never in the result.
C16_ActiveAlerts ==
  LET result == GetActiveAlerts
      open == {i \in DOMAIN alerts : ~alerts[i].resolved}
  IN  /\ Len(result) = Cardinality(open)
      /\ \A k \in DOMAIN result : \E i \in open : result[k] = alerts[i]
      /\ \A i \in open : \E k \in DOMAIN result : result[k] = alerts[i]
      /\ \A k, l \in DOMAIN result :
           k < l => \E i, j \in open :
                      i < j /\ result[k] = alerts[i] /\ result[l] = alerts[j]

\* The first alert is resolved, the second acknowledged and unresolved, and
\* the query returns the second only
C16_Witness ==
  /\ Len(alerts) >= 2
  /\ alerts[1].resolved
  /\ alerts[2].acknowledged
  /\ ~alerts[2].resolved
  /\ GetActiveAlerts = <<alerts[2]>>

\* C17: the reading log is append-only. In every step the log before is a
\* prefix of the log after, so no logged reading is removed, moved or changed;
\* an ingest_reading that returns a reading extends the log by exactly that
\* one reading, and no other operation changes the log.
C17_LogAppendOnly ==
  [][/\ Len(readings') >= Len(readings)
     /\ SubSeq(readings', 1, Len(readings)) = readings
     /\ IF ret'.op = "ingest_reading" /\ ~ret'.raised
        THEN readings' = Append(readings, ret'.value)
        ELSE readings' = readings]_vars

\* A second reading has been logged behind the first, and an operation other
\* than ingest_reading has run since
C17_Witness ==
  /\ Len(readings) >= 2
  /\ readings[1].reading_id = 1
  /\ readings[2].reading_id = 2
  /\ ret.op = "resolve_alert"
  /\ ret.value = TRUE

\* The identifiers of a collection, in creation order, never repeat
Distinct(ids) == \A i, j \in DOMAIN ids : i # j => ids[i] # ids[j]
Increasing(ids) == \A i, j \in DOMAIN ids : i < j => ids[i] < ids[j]
SensorIds == [i \in DOMAIN sensors |-> sensors[i].sensor_id]
ReadingIds == [i \in DOMAIN readings |-> readings[i].reading_id]
AlertIds == [i \in DOMAIN alerts |-> alerts[i].alert_id]

\* C18: no two sensors share a sensor_id, no two readings a reading_id and no
\* two alerts an alert_id; reading IDs and alert IDs increase strictly in
\* creation order; and no step changes the sensor_id of a registered sensor.
C18_UniqueIds ==
  /\ [](/\ Distinct(SensorIds)
        /\ Distinct(ReadingIds) /\ Increasing(ReadingIds)
        /\ Distinct(AlertIds) /\ Increasing(AlertIds))
  /\ [][\A i \in DOMAIN sensors :
          /\ i \in DOMAIN sensors'
          /\ sensors'[i].sensor_id = sensors[i].sensor_id]_vars

\* Two sensors, two readings and two alerts exist, and an alert was created
\* after an earlier one had been resolved
C18_Witness ==
  /\ Len(sensors) >= 2
  /\ Len(readings) >= 2
  /\ Len(alerts) >= 2
  /\ alerts[1].resolved
  /\ IngestReturned
  /\ ret.value.triggered_alert
  /\ ret.value.sensor_id = 2

\* min <= optimal_min <= optimal_max <= max
Ordered(thresholds) ==
  /\ thresholds.min <= thresholds.optimal_min
  /\ thresholds.optimal_min <= thresholds.optimal_max
  /\ thresholds.optimal_max <= thresholds.max

\* C19: the sensor register_sensor returns, for every category of the
\* enumeration (with or without a row in the configuration table), has status
\* Online, battery_level 100 and thresholds with
\* min <= optimal_min <= optimal_max <= max; and the thresholds of every
\* sensor are ordered like this in every reachable state.
C19_RegisteredSensor ==
  /\ ret.op = "register_sensor" =>
       /\ ret.value.status = "Online"
       /\ ret.value.battery_level = 100
       /\ Ordered(ret.value.thresholds)
       /\ ret.value = sensors[ret.arg]
  /\ \A i \in DOMAIN sensors : Ordered(sensors[i].thresholds)

\* A sensor of a category without a configuration row has been registered
\* and has since taken a reading
C19_Witness ==
  /\ IngestReturned
  /\ sensors[ret.arg].sensor_type \notin DOMAIN SENSOR_CONFIG
  /\ sensors[ret.arg].last_reading = ret.value.value
  /\ ret.value.value # 0

\* C20: an alert has a resolution_time exactly when its resolved flag is TRUE;
\* an alert is created with acknowledged = FALSE, resolved = FALSE and no
\* resolution_time; and the only operation that changes the resolution_time
\* of an alert is resolve_alert with the ID of that alert.
C20_ResolutionTime ==
  /\ [](\A k \in DOMAIN alerts :
          alerts[k].resolution_time # <<>> <=> alerts[k].resolved)
  /\ [][/\ \A k \in DOMAIN alerts' \ DOMAIN alerts :
             /\ ~alerts'[k].acknowledged
             /\ ~alerts'[k].resolved
             /\ alerts'[k].resolution_time = <<>>
        /\ \A k \in DOMAIN alerts :
             alerts'[k].resolution_time # alerts[k].resolution_time =>
               /\ ret'.op = "resolve_alert"
               /\ ret'.arg = alerts[k].alert_id]_vars

\* One alert is resolved and carries a resolution_time, another has just been
\* acknowledged and carries none
C20_Witness ==
  /\ ret.op = "acknowledge_alert"
  /\ ret.value = TRUE
  /\ \E k, l \in DOMAIN alerts :
       /\ alerts[k].resolved
       /\ alerts[k].resolution_time = <<now>>
       /\ alerts[l].alert_id = ret.arg
       /\ alerts[l].acknowledged
       /\ ~alerts[l].resolved
       /\ alerts[l].resolution_time = <<>>

\* C21: in every reachable state calculate_comfort_score returns a result
\* without raising, and every component score of the result lies between 0
\* and 100, both included; this covers a sensor that has not been read and a
\* sensor whose last value is below an optimal_min of 0.
C21_ComfortScoreInRange ==
  LET result == CalculateComfortScore
  IN  /\ ~result.raised
      /\ \A c \in DOMAIN result.value[1].component_scores :
           LET score == result.value[1].component_scores[c]
           IN  0 <= score.n /\ score.n <= 100 * score.d

\* The weighted average over every sensor of a weighted category, from
\* position i of the population: the sum of weight * score and the sum of
\* the weights
RECURSIVE AverageOfAll(_)
AverageOfAll(i) ==
  IF i > Len(sensors) THEN [sum |-> Rat(0, 1), weight |-> 0]
  ELSE LET rest == AverageOfAll(i + 1)
           c == sensors[i].sensor_type
           score == CalculateSensorScore(sensors[i]).score[1]
       IN  IF c \in DOMAIN Weights
           THEN [sum |-> RatAdd(Rat(score.n * Weights[c], score.d), rest.sum),
                 weight |-> Weights[c] + rest.weight]
           ELSE rest

\* C22: when calculate_comfort_score returns and the population has a sensor
\* of a weighted category, the overall score is the weighted average of the
\* scores of all sensors of weighted categories, each with the weight of its
\* category, divided by the sum of those weights; several sensors of one
\* category all count.
C22_WeightedAverageOfAllSensors ==
  LET result == CalculateComfortScore
      all == AverageOfAll(1)
  IN  (~result.raised /\ all.weight > 0) =>
        result.value[1].overall = Rat(all.sum.n, all.sum.d * all.weight)

\* The remediation strings the source has for a category
Remediations(category) ==
  {Recommendation(c) : c \in {d \in {category} :
                                \E k \in DOMAIN RecommendationOrder :
                                  RecommendationOrder[k] = d}}
Range(seq) == {seq[k] : k \in DOMAIN seq}

\* C23: when calculate_comfort_score returns, its recommendations hold the
\* remediation string of every weighted category (temperature, humidity,
\* air quality, CO2, noise, light) whose component score is below 70, and
\* hold "All parameters within optimal range" only when no component score
\* is below 70.
C23_Recommendations ==
  LET result == CalculateComfortScore
  IN  ~result.raised =>
        LET scores == result.value[1].component_scores
            recommendations == Range(result.value[1].recommendations)
        IN  /\ \A c \in DOMAIN Weights :
                 Below70(scores, c) =>
                   \E text \in Remediations(c) : text \in recommendations
            /\ AllOptimal \in recommendations =>
                 \A c \in DOMAIN Weights : ~Below70(scores, c)

\* C24: get_network_status reports Excellent exactly when no sensor is
\* offline and no alert is active; otherwise Good exactly when at most one
\* sensor is offline and no active alert is Critical; otherwise Fair exactly
\* when at most two sensors are offline; otherwise Poor.  total_sensors is
\* online_sensors + offline_sensors, online_sensors counts the sensors whose
\* status is Online, and active_alerts are the unresolved alerts.
C24_NetworkHealth ==
  LET status == GetNetworkStatus
      offline == status.offline_sensors
      open == {k \in DOMAIN alerts : ~alerts[k].resolved}
      excellent == offline = 0 /\ open = {}
      good == ~excellent /\ offline <= 1
                /\ \A k \in open : alerts[k].severity # "CRITICAL"
      fair == ~excellent /\ ~good /\ offline <= 2
  IN  /\ status.network_health = "Excellent" <=> excellent
      /\ status.network_health = "Good" <=> good
      /\ status.network_health = "Fair" <=> fair
      /\ status.network_health = "Poor" <=> (~excellent /\ ~good /\ ~fair)
      /\ status.total_sensors = Len(sensors)
      /\ status.total_sensors = status.online_sensors + status.offline_sensors
      /\ status.online_sensors =
           Cardinality({i \in DOMAIN sensors : sensors[i].status = "Online"})
      /\ status.active_alerts = GetActiveAlerts

\* One sensor is offline, a Critical alert is resolved, and the health is
\* Good
C24_Witness ==
  /\ GetNetworkStatus.offline_sensors = 1
  /\ \E k \in DOMAIN alerts : alerts[k].severity = "CRITICAL" /\ alerts[k].resolved
  /\ GetNetworkStatus.network_health = "Good"

\* The positions of the log entries of a sensor
EntriesOf(sensor_id) == {i \in DOMAIN readings : readings[i].sensor_id = sensor_id}

\* C25: an ingest_reading that logs a reading, breaching or not, leaves its
\* sensor with last_reading and last_reading_time equal to the value and the
\* timestamp of that reading and every other sensor as it was; and in every
\* state the last_reading of a sensor that has log entries is the value of
\* the entry appended last for it, whatever the timestamps of the entries.
C25_SensorTracksIngestion ==
  /\ [](\A i \in DOMAIN sensors :
          EntriesOf(i) # {} =>
            LET newest == CHOOSE k \in EntriesOf(i) : \A l \in EntriesOf(i) : l <= k
            IN  /\ sensors[i].last_reading = readings[newest].value
                /\ sensors[i].last_reading_time = readings[newest].timestamp)
  /\ [][Len(readings') > Len(readings) =>
          LET reading == readings'[Len(readings')]
          IN  /\ reading.sensor_id \in DOMAIN sensors
              /\ sensors'[reading.sensor_id].last_reading = reading.value
              /\ sensors'[reading.sensor_id].last_reading_time = reading.timestamp
              /\ \A j \in DOMAIN sensors :
                   j # reading.sensor_id => sensors'[j] = sensors[j]]_vars

\* A sensor took a reading stamped now + 1 and then a different value stamped
\* earlier, and holds the second; another sensor has not been read
C25_Witness ==
  /\ Len(readings) >= 2
  /\ Len(sensors) >= 2
  /\ readings[1].sensor_id = readings[2].sensor_id
  /\ readings[1].timestamp > readings[2].timestamp
  /\ readings[1].value # readings[2].value
  /\ sensors[readings[2].sensor_id].last_reading = readings[2].value
  /\ ~readings[2].triggered_alert
  /\ \E j \in DOMAIN sensors : EntriesOf(j) = {}

\* C28: once an alert has a resolution_time, no later operation changes it,
\* a second resolve_alert of the same alert included.
C28_ResolutionTimeStable ==
  [][\A k \in DOMAIN alerts :
       alerts[k].resolution_time # <<>> =>
         alerts'[k].resolution_time = alerts[k].resolution_time]_vars

\* C30: no step of register_sensor, ingest_reading, acknowledge_alert or
\* resolve_alert changes the status of a sensor, so get_network_status
\* always reports offline_sensors = 0 and online_sensors = total_sensors, and
\* its health is Excellent when no alert is active, Good when alerts are
\* active and none of them is Critical, Fair when a Critical alert is active,
\* and never Poor.
C30_NeverOffline ==
  /\ [](LET status == GetNetworkStatus
            open == {k \in DOMAIN alerts : ~alerts[k].resolved}
            critical == {k \in open : alerts[k].severity = "CRITICAL"}
        IN  /\ \A i \in DOMAIN sensors : sensors[i].status = "Online"
            /\ status.offline_sensors = 0
            /\ status.online_sensors = status.total_sensors
            /\ status.network_health # "Poor"
            /\ status.network_health = "Excellent" <=> open = {}
            /\ status.network_health = "Good" <=> (open # {} /\ critical = {})
            /\ status.network_health = "Fair" <=> critical # {})
  /\ [][\A i \in DOMAIN sensors :
          sensors'[i].status = sensors[i].status]_vars

\* A Critical alert has been raised and acknowledged and is still active, and
\* the health is Fair
C30_Witness ==
  /\ ret.op = "acknowledge_alert"
  /\ ret.value = TRUE
  /\ \E k \in DOMAIN alerts :
       /\ alerts[k].alert_id = ret.arg
       /\ alerts[k].severity = "CRITICAL"
       /\ alerts[k].acknowledged
       /\ ~alerts[k].resolved
  /\ GetNetworkStatus.network_health = "Fair"

\* C29: no logged reading with triggered_alert = TRUE has quality Good; the
\* optimal band of every sensor lies inside its threshold band, so a value
\* outside the threshold band is Fair or Poor.
C29_NoGoodBreach ==
  /\ \A i \in DOMAIN sensors :
       /\ sensors[i].thresholds.min <= sensors[i].thresholds.optimal_min
       /\ sensors[i].thresholds.optimal_max <= sensors[i].thresholds.max
  /\ \A i \in DOMAIN readings :
       readings[i].triggered_alert => readings[i].quality \in {"Fair", "Poor"}

\* A breaching reading just below min has been logged as Fair: min is also
\* the lower end of the optimal band of its sensor
C29_Witness ==
  \E i \in DOMAIN readings :
    /\ readings[i].triggered_alert
    /\ readings[i].quality = "Fair"
    /\ readings[i].value < sensors[readings[i].sensor_id].thresholds.min
    /\ sensors[readings[i].sensor_id].thresholds.min =
         sensors[readings[i].sensor_id].thresholds.optimal_min

\* C26: every listener is invoked with alerts in the order of their creation:
\* along the invocations an operation makes, the alert IDs one listener is
\* given increase strictly, also when a listener ingests a breaching value
\* from inside its callback.
C26_ListenerSeesCreationOrder ==
  \A k, l \in DOMAIN calls :
    (k < l /\ calls[k].listener = calls[l].listener) =>
      calls[k].alert_id < calls[l].alert_id

\* The reading that triggered an alert: alerts and breaching readings
\* correspond one to one, in order
Breaches == SelectSeq(readings, LAMBDA r : r.triggered_alert)

\* C27: at the moment a listener is invoked for an alert, the reading that
\* triggered the alert is the last entry of the reading log, last_reading and
\* last_reading_time of the sensor are the value and the timestamp of that
\* reading, and the alert is in the alert list and among the active alerts.
C27_ListenerSeesTrigger ==
  \A k \in DOMAIN calls :
    LET trigger == Breaches[calls[k].alert_id]
    IN  /\ calls[k].seen.log_last = <<trigger>>
        /\ calls[k].seen.last_reading = trigger.value
        /\ calls[k].seen.last_reading_time = trigger.timestamp
        /\ calls[k].seen.listed
        /\ calls[k].seen.active

====
